---- MODULE Spec2Model ----
(***************************************************************************)
(* A model of the CryptoV6 HTTP API: the store gateway (database.py) over  *)
(* four MongoDB collections and the endpoint handlers of the market-data,  *)
(* news and sentiment routers.  Every handler is one action: its inputs    *)
(* and the outcomes of its external calls (provider, loopback, scorer,     *)
(* store) are drawn with \E, and `last` records the request, the response  *)
(* and the collections as they were before the request.                    *)
(*                                                                         *)
(* Texts are TLA+ strings.  Times are whole hours; datetime.isoformat() is *)
(* modelled by IsoFormat as the pair <<day, hour>>.  A probability is a    *)
(* whole number of 1/Scale units.  None is the string None for a text, the *)
(* empty tuple for a published_at and NoTime for a timestamp.              *)
(***************************************************************************)
EXTENDS Integers, Sequences, FiniteSets, TLC

VARIABLES market, news, sentiment, trades, now, last

\* the module-level handles of database.py and routers/sentiment.py, how often
\* each was constructed, and where each concurrent request stands
VARIABLES client, sentiment_model, tokenizer, made, pc

shared == <<client, sentiment_model, tokenizer, made, pc>>

vars == <<market, news, sentiment, trades, now, last, client, sentiment_model, tokenizer,
          made, pc>>

(* ------------------------------ bounds -------------------------------- *)
\* the clock runs from 0 to MaxTime
MaxTime == 2
\* documents per collection
MaxDocs == 2
\* the largest limit / days a request carries
MaxLimit == 2
\* probabilities are multiples of 1/Scale
Scale == 5
\* sentiment records kept while every distribution is scored
MaxScored == 1
\* requests in flight at the same time
MaxRequests == 3
\* documents in the four collections together, when every operation runs
MaxStored == 4

(* ------------------------------ values -------------------------------- *)
None == "None"
NoTime == -1
HoursPerDay == 24

Min(a, b) == IF a < b THEN a ELSE b
Max(a, b) == IF a > b THEN a ELSE b
Abs(a) == IF a < 0 THEN -a ELSE a

Range(s) == {s[i] : i \in DOMAIN s}

IsPrefix(s, t) == Len(s) <= Len(t) /\ SubSeq(t, 1, Len(s)) = s

(* ------------------------------- text --------------------------------- *)
\* str.upper() / str.lower() on one character
UpperChar(c) ==
    CASE c = "a" -> "A" [] c = "b" -> "B" [] c = "c" -> "C" [] c = "d" -> "D"
      [] c = "e" -> "E" [] c = "h" -> "H" [] c = "t" -> "T" [] c = "x" -> "X"
      [] OTHER -> c

LowerChar(c) ==
    CASE c = "A" -> "a" [] c = "B" -> "b" [] c = "C" -> "c" [] c = "D" -> "d"
      [] c = "E" -> "e" [] c = "H" -> "h" [] c = "L" -> "l" [] c = "P" -> "p"
      [] c = "R" -> "r" [] c = "T" -> "t" [] c = "X" -> "x"
      [] OTHER -> c

RECURSIVE Upper(_)
Upper(s) ==
    IF s = "" THEN ""
    ELSE UpperChar(SubSeq(s, 1, 1)) \o Upper(SubSeq(s, 2, Len(s)))

RECURSIVE Lower(_)
Lower(s) ==
    IF s = "" THEN ""
    ELSE LowerChar(SubSeq(s, 1, 1)) \o Lower(SubSeq(s, 2, Len(s)))

\* str.strip(): leading and trailing blanks removed
RECURSIVE LStrip(_)
LStrip(s) ==
    IF s # "" /\ SubSeq(s, 1, 1) = " " THEN LStrip(SubSeq(s, 2, Len(s))) ELSE s

RECURSIVE RStrip(_)
RStrip(s) ==
    IF s # "" /\ SubSeq(s, Len(s), Len(s)) = " "
    THEN RStrip(SubSeq(s, 1, Len(s) - 1))
    ELSE s

Strip(s) == RStrip(LStrip(s))

\* str.split(","): always at least one piece
RECURSIVE SplitFrom(_, _, _)
SplitFrom(s, start, i) ==
    IF i > Len(s) THEN <<SubSeq(s, start, Len(s))>>
    ELSE IF SubSeq(s, i, i) = ","
         THEN <<SubSeq(s, start, i - 1)>> \o SplitFrom(s, i + 1, i + 1)
         ELSE SplitFrom(s, start, i + 1)

Split(s) == SplitFrom(s, 1, 1)

\* Python's `sub in s` on two strings
Contains(sub, s) ==
    \E i \in 1..(Len(s) - Len(sub) + 1) : SubSeq(s, i, i + Len(sub) - 1) = sub

\* [coin.strip().upper() for coin in coins.split(",")]
CoinListOf(coins) == [i \in DOMAIN Split(coins) |-> Upper(Strip(Split(coins)[i]))]

\* the coins parameters of the requests modelled; None is an absent parameter
CoinInputs == {None, "", "btc", " eth,BTC", "BTC,ETH", "BTC", "ETH"}

\* CoinListOf, computed once for each parameter
CoinLists == [coins \in CoinInputs |-> CoinListOf(coins)]
CoinList(coins) == CoinLists[coins]

(* ------------------------------- time --------------------------------- *)
\* datetime.isoformat(): date before hour, compared field by field
IsoFormat(t) == <<t \div HoursPerDay, t % HoursPerDay>>

\* order of two published_at values in a MongoDB sort: null sorts lowest
PubLess(a, b) ==
    IF a = <<>> THEN b # <<>>
    ELSE IF b = <<>> THEN FALSE
    ELSE a[1] < b[1] \/ (a[1] = b[1] /\ a[2] < b[2])

(* --------------------------- store gateway ---------------------------- *)
\* a Python dict as a function on its keys: d[key] = val, del d[key]
Put(d, key, val) == [k \in DOMAIN d \cup {key} |-> IF k = key THEN val ELSE d[k]]
Remove(d, key) == [k \in DOMAIN d \ {key} |-> d[k]]

\* the four collections, each in insertion order
Store == [market |-> market, news |-> news, sentiment |-> sentiment, trades |-> trades]

\* collection.insert_one(document): an _id is added unless the caller gave one
insert_one(collection, document) ==
    Append(collection,
           IF "_id" \in DOMAIN document THEN document
           ELSE Put(document, "_id", Len(collection) + 1))

RECURSIVE insert_many(_, _)
insert_many(collection, documents) ==
    IF documents = <<>> THEN collection
    ELSE insert_many(insert_one(collection, Head(documents)), Tail(documents))

\* Cursor.limit(n): 0 means no limit, a negative n means abs(n) in one batch
CursorLimit(docs, limit) ==
    IF limit = 0 THEN docs ELSE SubSeq(docs, 1, Min(Abs(limit), Len(docs)))

\* the order of two values of a sort key: timestamp is a time, published_at
\* an ISO date or null
KeyLess(key, a, b) == IF key = "published_at" THEN PubLess(a, b) ELSE a < b

Perms(n) == {p \in [1..n -> 1..n] : \A i, j \in 1..n : p[i] = p[j] => i = j}

\* find(sort=[(key, -1)]): every order of the documents that descends by the
\* key; MongoDB fixes no order among documents with equal keys
SortedDesc(collection, key) ==
    {[i \in 1..Len(collection) |-> collection[p[i]]] :
        p \in {q \in Perms(Len(collection)) :
                 \A i, j \in 1..Len(collection) :
                    i < j => ~KeyLess(key, collection[q[i]][key], collection[q[j]][key])}}

\* the bug of data.setdefault("timestamp", now): a caller's timestamp is kept
store_market_data_keep(data) ==
    insert_one(market,
               IF "timestamp" \in DOMAIN data /\ data.timestamp # NoTime THEN data
               ELSE Put(data, "timestamp", now))

\* store_market_data(data): the collection after the insert
store_market_data(data) == insert_one(market, Put(data, "timestamp", now))

\* the bug of sorting ascending: the oldest snapshot
get_latest_market_data_oldest ==
    IF market = <<>> THEN {<<>>}
    ELSE {<<s[Len(s)]>> : s \in SortedDesc(market, "timestamp")}

\* get_latest_market_data(): find_one(sort=[("timestamp", -1)]), as the set of
\* possible answers, each a sequence of no or one document
get_latest_market_data ==
    IF market = <<>> THEN {<<>>}
    ELSE {<<s[1]>> : s \in SortedDesc(market, "timestamp")}

(* ---------------------------- the provider ---------------------------- *)
\* the outcome recorded when a request makes no external call
NotCalled == [kind |-> "not_called"]

\* how requests.get + raise_for_status can fail
ProviderFailures == {[kind |-> "connection_error"], [kind |-> "http_error"]}

CoinData(name, symbol, price) ==
    [name |-> name, symbol |-> symbol,
     quote |-> [USD |-> [price |-> price, percent_change_1h |-> 1,
                         percent_change_24h |-> 2, percent_change_7d |-> 3,
                         market_cap |-> 4, volume_24h |-> 5]]]

\* bodies of cryptocurrency/quotes/latest: with "data", without it, and with
\* a coin that lacks its quote
QuoteBodies ==
    {[data |-> [BTC |-> CoinData("Bitcoin", "BTC", 100)]],
     [data |-> [BTC |-> CoinData("Bitcoin", "BTC", 101),
                ETH |-> CoinData("Ethereum", "ETH", 7)]],
     [status |-> "no data"],
     [data |-> [BTC |-> [name |-> "Bitcoin", symbol |-> "BTC"]]]}

QuoteOutcomes ==
    {NotCalled} \cup ProviderFailures \cup {[kind |-> "ok", body |-> b] : b \in QuoteBodies}

\* the bug of answering a failed call with an empty body
fetch_swallowing_errors(outcome) ==
    IF outcome.kind # "ok"
    THEN [ok |-> TRUE, calls |-> 1, body |-> [status |-> outcome.kind]]
    ELSE [ok |-> TRUE, calls |-> 1, body |-> outcome.body]

\* fetch_from_coinmarketcap: [ok, body, calls]; calls counts requests.get
fetch_from_coinmarketcap(outcome) ==
    IF outcome.kind # "ok"
    THEN [ok |-> FALSE, calls |-> 1,
          detail |-> "Error fetching data from CoinMarketCap: " \o outcome.kind]
    ELSE [ok |-> TRUE, calls |-> 1, body |-> outcome.body]

(* ------------------------- market-data router ------------------------- *)
\* what `last` keeps of a request: the operation, its arguments, the outcomes
\* of its external calls, the response, the number of provider calls, the
\* clock and the collections as the request found them
Response(op, args, env, status, body, calls) ==
    [op |-> op, args |-> args, env |-> env, status |-> status, body |-> body,
     provider_calls |-> calls, at |-> now, before |-> Store]

\* the quote fields the handler copies; a KeyError when one is missing
QuoteComplete(coin_data) ==
    /\ {"name", "symbol", "quote"} \subseteq DOMAIN coin_data
    /\ "USD" \in DOMAIN coin_data.quote
    /\ {"price", "percent_change_1h", "percent_change_24h", "percent_change_7d",
        "market_cap", "volume_24h"} \subseteq DOMAIN coin_data.quote.USD

Reshape(coin_data) ==
    [name |-> coin_data.name, symbol |-> coin_data.symbol,
     price |-> coin_data.quote.USD.price,
     percent_change_1h |-> coin_data.quote.USD.percent_change_1h,
     percent_change_24h |-> coin_data.quote.USD.percent_change_24h,
     percent_change_7d |-> coin_data.quote.USD.percent_change_7d,
     market_cap |-> coin_data.quote.USD.market_cap,
     volume_24h |-> coin_data.quote.USD.volume_24h]

MarketResult(body) ==
    [data |-> IF "data" \in DOMAIN body
              THEN [s \in DOMAIN body.data |-> Reshape(body.data[s])]
              ELSE <<>>,
     timestamp |-> NoTime]

\* GET /market-data, the part after a cache miss
MarketFetch(args, outcome) ==
    LET r == fetch_from_coinmarketcap(outcome) IN
    IF ~r.ok
    THEN /\ last' = Response("get_market_data", args, outcome, 500,
                             [detail |-> r.detail], r.calls)
         /\ UNCHANGED market
    ELSE IF "data" \in DOMAIN r.body
            /\ \E s \in DOMAIN r.body.data : ~QuoteComplete(r.body.data[s])
    THEN /\ last' = Response("get_market_data", args, outcome, 500,
                             [detail |-> "KeyError"], r.calls)
         /\ UNCHANGED market
    ELSE /\ Len(market) < MaxDocs
         /\ market' = store_market_data(MarketResult(r.body))
         /\ last' = Response("get_market_data", args, outcome, 200,
                             market'[Len(market')], r.calls)

\* GET /market-data; outcome is NotCalled exactly when the cache answers
GetMarketData(symbols, limit, use_cache, outcome) ==
    LET args == [symbols |-> symbols, limit |-> limit, use_cache |-> use_cache] IN
    /\ (outcome = NotCalled) <=> (use_cache /\ market # <<>>)
    /\ \E cached \in get_latest_market_data :
          IF use_cache /\ cached # <<>>
          THEN /\ last' = Response("get_market_data", args, NotCalled, 200,
                                   Remove(cached[1], "_id"), 0)
               /\ UNCHANGED market
          ELSE MarketFetch(args, outcome)
    /\ UNCHANGED <<news, sentiment, trades, now>>

\* bodies of global-metrics/quotes/latest
MetricsBodies ==
    {[data |-> [quote |-> [USD |-> [total_market_cap |-> 9, total_volume_24h |-> 8]],
                btc_dominance |-> 50, eth_dominance |-> 20,
                active_cryptocurrencies |-> 3, last_updated |-> 1]],
     [status |-> "no data"]}

MetricsOutcomes == ProviderFailures \cup {[kind |-> "ok", body |-> b] : b \in MetricsBodies}

\* GET /global-metrics
GetGlobalMetrics(outcome) ==
    LET r == fetch_from_coinmarketcap(outcome) IN
    /\ last' =
         IF ~r.ok
         THEN Response("get_global_metrics", <<>>, outcome, 500,
                       [detail |-> r.detail], r.calls)
         ELSE IF "data" \in DOMAIN r.body
         THEN Response("get_global_metrics", <<>>, outcome, 200,
                  [total_market_cap |-> r.body.data.quote.USD.total_market_cap,
                   total_volume_24h |-> r.body.data.quote.USD.total_volume_24h,
                   btc_dominance |-> r.body.data.btc_dominance,
                   eth_dominance |-> r.body.data.eth_dominance,
                   active_cryptocurrencies |-> r.body.data.active_cryptocurrencies,
                   last_updated |-> r.body.data.last_updated], r.calls)
         ELSE Response("get_global_metrics", <<>>, outcome, 500,
                       [detail |-> "Failed to fetch global metrics"], r.calls)
    /\ UNCHANGED <<market, news, sentiment, trades, now>>

(* ----------------------------- news router ---------------------------- *)
\* dict.get(key, default)
Get(d, key, default) == IF key \in DOMAIN d THEN d[key] ELSE default

\* a store_news that keeps only the latest batch
store_news_replacing(collection, news_items) ==
    IF Len(news_items) > 0
    THEN insert_many(<<>>, [i \in DOMAIN news_items |->
                              Put(news_items[i], "stored_at", now)])
    ELSE collection

\* store_news(news_items): every item is stamped, then insert_many of a
\* non-empty list; the news collection after the call, given the one before
store_news(collection, news_items) ==
    IF Len(news_items) > 0
    THEN insert_many(collection, [i \in DOMAIN news_items |->
                                     Put(news_items[i], "stored_at", now)])
    ELSE collection

\* get_recent_news(limit): find(sort=[("published_at", -1)]).limit(limit), as
\* the set of possible answers
get_recent_news(collection, limit) ==
    {CursorLimit(s, limit) : s \in SortedDesc(collection, "published_at")}

\* list comprehension with a condition: the items of l at the positions kept
Filter(l, kept) ==
    LET Nth(k) == CHOOSE i \in kept : Cardinality({j \in kept : j < i}) = k - 1
    IN [k \in 1..Cardinality(kept) |-> l[Nth(k)]]

\* any(coin in title or coin in description for coin in coin_list), evaluated
\* left to right: "True", "False", or "TypeError" when a None is searched
RECURSIVE CachedMatch(_, _)
CachedMatch(article, coin_list) ==
    IF coin_list = <<>> THEN "False"
    ELSE IF Get(article, "title", "") = None THEN "TypeError"
    ELSE IF Contains(Head(coin_list), Get(article, "title", "")) THEN "True"
    ELSE IF Get(article, "description", "") = None THEN "TypeError"
    ELSE IF Contains(Head(coin_list), Get(article, "description", "")) THEN "True"
    ELSE CachedMatch(article, Tail(coin_list))

\* the provider path's filter: title, description, then the related coins
RECURSIVE FetchedMatch(_, _)
FetchedMatch(item, coin_list) ==
    IF coin_list = <<>> THEN "False"
    ELSE IF Get(item, "title", "") = None THEN "TypeError"
    ELSE IF Contains(Head(coin_list), Get(item, "title", "")) THEN "True"
    ELSE IF Get(item, "description", "") = None THEN "TypeError"
    ELSE IF Contains(Head(coin_list), Get(item, "description", "")) THEN "True"
    ELSE IF \E rc \in Range(Get(item, "related_coins", <<>>)) :
               Get(rc, "symbol", None) = Head(coin_list)
         THEN "True"
    ELSE FetchedMatch(item, Tail(coin_list))

IsTrue(verdict) == verdict = "True"

\* `if coins:` holds for a string that is neither None nor empty
Truthy(coins) == coins # None /\ coins # ""

\* news_items[:limit], Python's slice
Slice(l, limit) ==
    IF limit >= 0 THEN SubSeq(l, 1, Min(limit, Len(l)))
    ELSE SubSeq(l, 1, Max(Len(l) + limit, 0))

DefaultCoins == <<"BTC", "ETH", "XRP", "LTC", "ADA">>

TitleTail == " Shows Promising Movement in Today's Trading"

\* the bug of taking the first coin for every article
SimulatedItem_first(i, coins_to_include) ==
    LET coin == coins_to_include[1] IN
    [title |-> coin \o TitleTail,
     url |-> "https://example.com/crypto-news/" \o Lower(coin) \o "-update",
     description |-> "The cryptocurrency " \o coin
        \o " has shown significant movement today with traders taking interest in its latest developments.",
     published_at |-> IsoFormat(now - i),
     source |-> "CryptoNewsSimulator",
     related_coins |-> <<[symbol |-> coin]>>]

\* the i-th simulated article, i from 0, of the fallback
SimulatedItem(i, coins_to_include) ==
    LET coin == coins_to_include[(i % Len(coins_to_include)) + 1] IN
    [title |-> coin \o TitleTail,
     url |-> "https://example.com/crypto-news/" \o Lower(coin) \o "-update",
     description |-> "The cryptocurrency " \o coin
        \o " has shown significant movement today with traders taking interest in its latest developments.",
     published_at |-> IsoFormat(now - i),
     source |-> "CryptoNewsSimulator",
     related_coins |-> <<[symbol |-> coin]>>]

\* for i in range(limit): ...
SimulatedNews(coins, limit) ==
    LET coins_to_include == IF Truthy(coins) THEN CoinList(coins) ELSE DefaultCoins IN
    [k \in 1..Max(limit, 0) |-> SimulatedItem(k - 1, coins_to_include)]

\* what a run of the news handler leaves: the news collection, the response
\* and the number of provider calls
NewsAnswer(collection, status, body, calls) ==
    [news |-> collection, status |-> status, body |-> body, calls |-> calls]

\* the except branch: simulate, store, answer with the stored items
NewsFallback(collection, args, calls) ==
    LET simulated_news == SimulatedNews(args.coins, args.limit)
        stored == store_news(collection, simulated_news)
    IN NewsAnswer(stored, 200,
                  [news |-> SubSeq(stored, Len(collection) + 1, Len(stored))], calls)

\* the item the handler builds from one provider item
NewsItem(item) ==
    [title |-> Get(item, "title", None), url |-> Get(item, "url", None),
     description |-> Get(item, "description", None),
     published_at |-> Get(item, "published_at", <<>>),
     source |-> Get(item, "source", None),
     related_coins |-> Get(item, "coins", <<>>)]

FetchedVerdict(item, coins) == FetchedMatch(item, CoinList(coins))
FetchedKept(item, coins) == IsTrue(FetchedVerdict(item, coins))

\* the try branch after a cache miss
NewsFetch(collection, args, outcome) ==
    LET r == fetch_from_coinmarketcap(outcome)
        news_items == [i \in DOMAIN r.body.data |-> NewsItem(r.body.data[i])]
        kept == {i \in DOMAIN news_items : FetchedKept(news_items[i], args.coins)}
        filtered == IF Truthy(args.coins) THEN Filter(news_items, kept) ELSE news_items
        limited == Slice(filtered, args.limit)
        stored == store_news(collection, limited)
    IN
    IF ~r.ok \/ "data" \notin DOMAIN r.body
    THEN NewsFallback(collection, args, r.calls)
    ELSE IF Truthy(args.coins)
            /\ \E i \in DOMAIN news_items :
                  FetchedVerdict(news_items[i], args.coins) = "TypeError"
    THEN NewsFallback(collection, args, r.calls)
    ELSE NewsAnswer(stored, 200,
                    [news |-> SubSeq(stored, Len(collection) + 1, Len(stored))],
                    r.calls)

CachedVerdict(article, coins) == CachedMatch(article, CoinList(coins))
CachedKept(article, coins) == IsTrue(CachedVerdict(article, coins))

\* the answer from a non-empty cached list
NewsCached(collection, args, cached_news) ==
    LET stripped == [i \in DOMAIN cached_news |-> Remove(cached_news[i], "_id")]
        kept == {i \in DOMAIN stripped : CachedKept(stripped[i], args.coins)}
    IN
    IF ~Truthy(args.coins)
    THEN NewsAnswer(collection, 200, [news |-> stripped], 0)
    ELSE IF \E i \in DOMAIN stripped :
               CachedVerdict(stripped[i], args.coins) = "TypeError"
    THEN NewsAnswer(collection, 500, [detail |-> "TypeError"], 0)
    ELSE NewsAnswer(collection, 200, [news |-> Filter(stripped, kept)], 0)

\* get_crypto_news(coins, limit, use_cache) on a news collection: the set of
\* possible answers
get_crypto_news(collection, args, outcome) ==
    IF args.use_cache /\ collection # <<>>
    THEN {NewsCached(collection, args, cached_news) :
             cached_news \in get_recent_news(collection, args.limit)}
    ELSE {NewsFetch(collection, args, outcome)}

\* GET /crypto-news; outcome is NotCalled exactly when the cache answers
GetCryptoNews(coins, limit, use_cache, outcome) ==
    LET args == [coins |-> coins, limit |-> limit, use_cache |-> use_cache] IN
    /\ (outcome = NotCalled) <=> (use_cache /\ news # <<>>)
    /\ \E answer \in get_crypto_news(news, args, outcome) :
          /\ Len(answer.news) <= MaxDocs
          /\ news' = answer.news
          /\ last' = Response("get_crypto_news", args, outcome, answer.status,
                              answer.body, answer.calls)
    /\ UNCHANGED <<market, sentiment, trades, now>>

\* bodies of cryptocurrency/news: items with and without a title, no "data"
ProviderItems ==
    <<[title |-> "BTC rallies", url |-> "https://cmc/1", description |-> "Bitcoin up",
       published_at |-> IsoFormat(1), source |-> "cmc", coins |-> <<[symbol |-> "BTC"]>>],
      [url |-> "https://cmc/2", description |-> "Ether ETH steady",
       published_at |-> IsoFormat(0), coins |-> <<[symbol |-> "ETH"]>>]>>

NewsBodies ==
    {[data |-> <<ProviderItems[1]>>],
     [data |-> ProviderItems],
     [status |-> "no data"]}

NewsOutcomes ==
    {NotCalled} \cup ProviderFailures \cup {[kind |-> "ok", body |-> b] : b \in NewsBodies}

(* --------------------- sentiment and trade gateway -------------------- *)
\* the bug of passing text and coin in the wrong order
store_sentiment_swapped(collection, coin, text, score) ==
    insert_one(collection, [coin |-> text, text |-> coin, sentiment_score |-> score,
                           timestamp |-> now])

\* store_sentiment(coin, text, score): the sentiment collection after the
\* insert, given the one before
store_sentiment(collection, coin, text, score) ==
    insert_one(collection, [coin |-> coin, text |-> text, sentiment_score |-> score,
                           timestamp |-> now])

\* get_sentiment_history(coin, limit): the set of possible answers
get_sentiment_history(coin, limit) ==
    LET matching == {i \in DOMAIN sentiment : sentiment[i].coin = coin} IN
    {CursorLimit(s, limit) : s \in SortedDesc(Filter(sentiment, matching), "timestamp")}

\* record_trade(user_id, coin, action, amount, price)
record_trade(user_id, coin, action, amount, price) ==
    insert_one(trades, [user_id |-> user_id, coin |-> coin, action |-> action,
                        amount |-> amount, price |-> price, timestamp |-> now])

\* user_id=None, and `if user_id:` on a number
NoUser == -1
UserGiven(user_id) == user_id # NoUser /\ user_id # 0

\* limit=20 when the caller names none
DefaultTradeLimit == 20

\* get_trade_history(user_id, limit): the set of possible answers
get_trade_history(user_id, limit) ==
    LET matching == {i \in DOMAIN trades :
                        UserGiven(user_id) => trades[i].user_id = user_id}
    IN {CursorLimit(s, limit) : s \in SortedDesc(Filter(trades, matching), "timestamp")}

(* --------------------------- sentiment router ------------------------- *)
\* the softmax output [negative, neutral, positive], in units of 1/Scale
Distributions ==
    {<<n, Scale - n - p, p>> : <<n, p>> \in
        {q \in (0..Scale) \X (0..Scale) : q[1] + q[2] <= Scale}}

\* the fixed thresholds: a score above 1/5 is positive, below -1/5 negative
ThresholdNum == 1
ThresholdDen == 5

\* the label analyze_text_sentiment gives a score (in units of 1/Scale)
ScorerLabel(sentiment_score) ==
    IF sentiment_score * ThresholdDen > ThresholdNum * Scale THEN "positive"
    ELSE IF sentiment_score * ThresholdDen < -(ThresholdNum * Scale) THEN "negative"
    ELSE "neutral"

\* analyze_text_sentiment(text), for the distribution the model computes
analyze_text_sentiment(scores) ==
    [sentiment_score |-> scores[3] - scores[1],
     sentiment_label |-> ScorerLabel(scores[3] - scores[1]),
     raw_scores |-> [negative |-> scores[1], neutral |-> scores[2],
                     positive |-> scores[3]]]

\* what a scoring call can end with: a distribution or an exception
ScorerOutcomes == {[kind |-> "ok", scores |-> d] : d \in Distributions}
                  \cup {[kind |-> "scorer_error"]}

\* POST /analyze-sentiment; store_ok is whether the insert succeeds
AnalyzeSentiment(text, coin_arg, scored, store_ok) ==
    LET args == [text |-> text, coin |-> coin_arg]
        coin == Upper(coin_arg)
        env == Put(scored, "store_ok", store_ok)
    IN
    /\ IF scored.kind # "ok"
       THEN /\ last' = Response("analyze_sentiment", args, env, 500,
                                [detail |-> "Error analyzing sentiment: scorer"], 0)
            /\ UNCHANGED sentiment
       ELSE IF ~store_ok
       THEN /\ last' = Response("analyze_sentiment", args, env, 500,
                                [detail |-> "Error analyzing sentiment: store"], 0)
            /\ UNCHANGED sentiment
       ELSE LET sentiment_result == analyze_text_sentiment(scored.scores) IN
            /\ Len(sentiment) < MaxDocs
            /\ sentiment' = store_sentiment(sentiment, coin, text,
                                             sentiment_result.sentiment_score)
            /\ last' = Response("analyze_sentiment", args, env, 200,
                          [coin |-> coin, text |-> text,
                           sentiment_score |-> sentiment_result.sentiment_score,
                           sentiment_label |-> sentiment_result.sentiment_label,
                           timestamp |-> IsoFormat(now)], 0)
    /\ UNCHANGED <<market, news, trades, now>>

\* the bug of thresholds that include 0.2 and -0.2
BackfillLabel_inclusive(score) ==
    IF score * ThresholdDen >= ThresholdNum * Scale THEN "positive"
    ELSE IF score * ThresholdDen <= -(ThresholdNum * Scale) THEN "negative"
    ELSE "neutral"

\* the label GET /coin-sentiment gives a stored score
BackfillLabel(score) ==
    IF score * ThresholdDen > ThresholdNum * Scale THEN "positive"
    ELSE IF score * ThresholdDen < -(ThresholdNum * Scale) THEN "negative"
    ELSE "neutral"

\* one item of the formatted history
FormatItem(doc) ==
    LET item == Remove(doc, "_id") IN
    IF "sentiment_label" \in DOMAIN item THEN item
    ELSE Put(item, "sentiment_label", BackfillLabel(Get(item, "sentiment_score", 0)))

DaysFactor == 10

\* GET /coin-sentiment/{coin}
GetCoinSentiment(coin_arg, days) ==
    LET args == [coin |-> coin_arg, days |-> days]
        coin == Upper(coin_arg)
    IN
    /\ \E sentiment_history \in get_sentiment_history(coin, days * DaysFactor) :
          last' = Response("get_coin_sentiment", args, NotCalled, 200,
                     [coin |-> coin,
                      sentiment_history |->
                         [i \in DOMAIN sentiment_history |->
                             FormatItem(sentiment_history[i])]], 0)
    /\ UNCHANGED <<market, news, sentiment, trades, now>>

(* ---------------------- news-driven sentiment ------------------------- *)
\* how the processing of one coin can fail from outside: the loopback request
\* raises before the news handler runs, the scorer raises on the article
\* numbered `at`, or the insert of that article's record raises
NoFailure == [kind |-> "none", at |-> 0]
CoinFailures ==
    {NoFailure, [kind |-> "unreachable", at |-> 0], [kind |-> "scorer_error", at |-> 1],
     [kind |-> "store_error", at |-> 2]}

\* the entry of a coin whose processing raised
ErrorEntry(e) ==
    [error |-> "Failed to analyze news sentiment: " \o e, articles |-> <<>>]

\* description[:100]
Prefix(text, n) == SubSeq(text, 1, Min(n, Len(text)))
TextWidth == 100

\* f"{title}. {description[:100]}"
ArticleText(article) ==
    Get(article, "title", "") \o ". " \o Prefix(Get(article, "description", ""), TextWidth)

\* the distribution the model computes for a text: one for the texts that
\* mention BTC and one for the others
ScoresOf(scorer, text) == IF Contains("BTC", text) THEN scorer.btc ELSE scorer.other

RECURSIVE Sum(_)
Sum(l) == IF l = <<>> THEN 0 ELSE Head(l) + Sum(Tail(l))

\* the entry of a coin whose articles were all scored; the average is kept as
\* the fraction sum / count
ScoredEntry(coin_results) ==
    IF coin_results # <<>>
    THEN LET total == Sum([i \in DOMAIN coin_results |-> coin_results[i].sentiment_score])
             count == Len(coin_results)
         IN [articles |-> coin_results,
             average_sentiment |-> [num |-> total, den |-> count],
             overall_sentiment |->
                IF total * ThresholdDen > ThresholdNum * Scale * count THEN "positive"
                ELSE IF total * ThresholdDen < -(ThresholdNum * Scale * count)
                     THEN "negative"
                ELSE "neutral"]
    ELSE [articles |-> <<>>, average_sentiment |-> [num |-> 0, den |-> 1],
          overall_sentiment |-> "neutral"]

\* a loop over the articles that reports every score and persists none
RECURSIVE ScoreArticles_unsaved(_, _, _, _, _, _, _)
ScoreArticles_unsaved(collection, coin, articles, k, coin_results, failure, scorer) ==
    IF k > Len(articles)
    THEN [sentiment |-> collection, entry |-> ScoredEntry(coin_results)]
    ELSE IF Get(articles[k], "description", "") = None
    THEN [sentiment |-> collection, entry |-> ErrorEntry("TypeError")]
    ELSE IF failure.kind = "scorer_error" /\ failure.at = k
    THEN [sentiment |-> collection, entry |-> ErrorEntry("scorer_error")]
    ELSE IF failure.kind = "store_error" /\ failure.at = k
    THEN [sentiment |-> collection, entry |-> ErrorEntry("store_error")]
    ELSE LET text == ArticleText(articles[k])
             sentiment_result == analyze_text_sentiment(ScoresOf(scorer, text))
         IN ScoreArticles_unsaved(
               collection, coin, articles, k + 1,
               Append(coin_results,
                      [title |-> Get(articles[k], "title", None),
                       url |-> Get(articles[k], "url", None),
                       published_at |-> Get(articles[k], "published_at", <<>>),
                       sentiment_score |-> sentiment_result.sentiment_score,
                       sentiment_label |-> sentiment_result.sentiment_label]),
               failure, scorer)

\* the loop over the articles of one coin from article k on: the sentiment
\* collection it leaves and the coin's entry
RECURSIVE ScoreArticles(_, _, _, _, _, _, _)
ScoreArticles(collection, coin, articles, k, coin_results, failure, scorer) ==
    IF k > Len(articles)
    THEN [sentiment |-> collection, entry |-> ScoredEntry(coin_results)]
    ELSE IF Get(articles[k], "description", "") = None
    THEN [sentiment |-> collection, entry |-> ErrorEntry("TypeError")]
    ELSE IF failure.kind = "scorer_error" /\ failure.at = k
    THEN [sentiment |-> collection, entry |-> ErrorEntry("scorer_error")]
    ELSE IF failure.kind = "store_error" /\ failure.at = k
    THEN [sentiment |-> collection, entry |-> ErrorEntry("store_error")]
    ELSE LET text == ArticleText(articles[k])
             sentiment_result == analyze_text_sentiment(ScoresOf(scorer, text))
         IN ScoreArticles(
               store_sentiment(collection, coin, text, sentiment_result.sentiment_score),
               coin, articles, k + 1,
               Append(coin_results,
                      [title |-> Get(articles[k], "title", None),
                       url |-> Get(articles[k], "url", None),
                       published_at |-> Get(articles[k], "published_at", <<>>),
                       sentiment_score |-> sentiment_result.sentiment_score,
                       sentiment_label |-> sentiment_result.sentiment_label]),
               failure, scorer)

\* a loop turn whose failure discards the entries gathered so far
ProcessCoin_resetting(st, coin, limit, failure, env) ==
    IF failure.kind = "unreachable"
    THEN {[st EXCEPT !.results = Put(<<>>, coin, ErrorEntry("unreachable")),
                     !.raised = Append(st.raised, TRUE)]}
    ELSE {IF answer.status # 200
          THEN [news |-> answer.news, sentiment |-> st.sentiment,
                results |-> Put(<<>>, coin, ErrorEntry("JSONDecodeError")),
                raised |-> Append(st.raised, TRUE)]
          ELSE LET scored == ScoreArticles(st.sentiment, coin, answer.body.news, 1,
                                           <<>>, failure, env.scorer)
               IN [news |-> answer.news, sentiment |-> scored.sentiment,
                   results |-> IF "error" \in DOMAIN scored.entry
                               THEN Put(<<>>, coin, scored.entry)
                               ELSE Put(st.results, coin, scored.entry),
                   raised |-> Append(st.raised, "error" \in DOMAIN scored.entry)]
          : answer \in get_crypto_news(st.news,
                          [coins |-> coin, limit |-> limit, use_cache |-> TRUE],
                          env.provider)}

\* one turn of the loop over the coins: the set of possible states after it;
\* raised records, for each turn so far, whether its except clause ran.
\* The loopback request carries coins={coin}&limit={limit} and leaves
\* use_cache to its default; a 500 of the news handler has no JSON body
ProcessCoin(st, coin, limit, failure, env) ==
    IF failure.kind = "unreachable"
    THEN {[st EXCEPT !.results = Put(st.results, coin, ErrorEntry("unreachable")),
                     !.raised = Append(st.raised, TRUE)]}
    ELSE {IF answer.status # 200
          THEN [news |-> answer.news, sentiment |-> st.sentiment,
                results |-> Put(st.results, coin, ErrorEntry("JSONDecodeError")),
                raised |-> Append(st.raised, TRUE)]
          ELSE LET scored == ScoreArticles(st.sentiment, coin, answer.body.news, 1,
                                           <<>>, failure, env.scorer)
               IN [news |-> answer.news, sentiment |-> scored.sentiment,
                   results |-> Put(st.results, coin, scored.entry),
                   raised |-> Append(st.raised, "error" \in DOMAIN scored.entry)]
          : answer \in get_crypto_news(st.news,
                          [coins |-> coin, limit |-> limit, use_cache |-> TRUE],
                          env.provider)}

\* the loop over coin_list from position k on
RECURSIVE ProcessCoins(_, _, _, _, _)
ProcessCoins(st, coin_list, k, limit, env) ==
    IF k > Len(coin_list) THEN {st}
    ELSE UNION {ProcessCoins(next, coin_list, k + 1, limit, env) :
                  next \in ProcessCoin(st, coin_list[k], limit, env.fail[k], env)}

\* analyze_news_sentiment(coins, limit) on the collections given: the set of
\* possible [news, sentiment, results, raised]
analyze_news_sentiment(news_before, sentiment_before, coins, limit, env) ==
    ProcessCoins([news |-> news_before, sentiment |-> sentiment_before,
                  results |-> <<>>, raised |-> <<>>],
                 CoinList(coins), 1, limit, env)

\* GET /analyze-news-sentiment
AnalyzeNewsSentiment(coins, limit, env) ==
    /\ \E run \in analyze_news_sentiment(news, sentiment, coins, limit, env) :
          /\ Len(run.news) <= MaxDocs
          /\ news' = run.news
          /\ sentiment' = run.sentiment
          /\ last' = Response("analyze_news_sentiment",
                              [coins |-> coins, limit |-> limit],
                              Put(env, "raised", run.raised), 200, run.results, 0)
    /\ UNCHANGED <<market, trades, now>>

(* ------------- shared handles and concurrent requests ----------------- *)
\* client = None, sentiment_model = None, tokenizer = None
NoHandle == 0

Requests == 1..MaxRequests

\* the handles as one value; raised says whether the last call raised
Handles ==
    [client |-> client, sentiment_model |-> sentiment_model, tokenizer |-> tokenizer,
     made |-> made, raised |-> FALSE]

SetHandles(h) ==
    /\ client' = h.client
    /\ sentiment_model' = h.sentiment_model
    /\ tokenizer' = h.tokenizer
    /\ made' = h.made

\* whether MongoClient(MONGODB_URI) returns or raises
ConnectOutcomes == {"ok", "raises"}

\* get_database(): the k-th client constructed is the handle k
get_database(h, outcome) ==
    LET called == [h EXCEPT !.made.get_database = @ + 1] IN
    IF h.client = NoHandle
    THEN IF outcome = "ok"
         THEN [called EXCEPT !.client = h.made.client + 1, !.made.client = @ + 1,
                             !.raised = FALSE]
         ELSE [called EXCEPT !.raised = TRUE]
    ELSE [called EXCEPT !.raised = FALSE]

\* whether the two from_pretrained calls return, or which of them raises
LoadOutcomes == {"ok", "tokenizer_raises", "model_raises"}

\* a get_sentiment_model that loads the model on every call
get_sentiment_model_reloading(h, outcome) ==
    LET called == [h EXCEPT !.made.get_sentiment_model = @ + 1] IN
    IF outcome = "tokenizer_raises" THEN [called EXCEPT !.raised = TRUE]
    ELSE IF outcome = "model_raises"
    THEN [called EXCEPT !.tokenizer = h.made.tokenizer + 1, !.made.tokenizer = @ + 1,
                        !.made.model_failed = @ + 1, !.raised = TRUE]
    ELSE [called EXCEPT !.tokenizer = h.made.tokenizer + 1, !.made.tokenizer = @ + 1,
                        !.sentiment_model = h.made.sentiment_model + 1,
                        !.made.sentiment_model = @ + 1, !.raised = FALSE]

\* get_sentiment_model(): the tokenizer is loaded and assigned first, then the
\* model; an exception of the second load leaves the tokenizer assigned
get_sentiment_model(h, outcome) ==
    LET called == [h EXCEPT !.made.get_sentiment_model = @ + 1] IN
    IF h.sentiment_model = NoHandle \/ h.tokenizer = NoHandle
    THEN IF outcome = "tokenizer_raises" THEN [called EXCEPT !.raised = TRUE]
         ELSE IF outcome = "model_raises"
         THEN [called EXCEPT !.tokenizer = h.made.tokenizer + 1, !.made.tokenizer = @ + 1,
                             !.made.model_failed = @ + 1, !.raised = TRUE]
         ELSE [called EXCEPT !.tokenizer = h.made.tokenizer + 1, !.made.tokenizer = @ + 1,
                             !.sentiment_model = h.made.sentiment_model + 1,
                             !.made.sentiment_model = @ + 1, !.raised = FALSE]
    ELSE [called EXCEPT !.raised = FALSE]

\* the request ends
Finish(r) == pc' = [pc EXCEPT ![r] = [at |-> "done"]]

\* the request is suspended in `await fetch_from_coinmarketcap(...)`
Suspend(r, at, args) == pc' = [pc EXCEPT ![r] = [at |-> at, args |-> args]]

\* an exception of get_database() that no handler catches: a 500, nothing written
Unhandled(op, args, calls) ==
    /\ last' = Response(op, args, [kind |-> "store_error"], 500,
                        [detail |-> "Internal Server Error"], calls)
    /\ UNCHANGED <<market, news, sentiment, trades, now>>

\* GET /market-data up to its await: the cache read, when use_cache is set
MarketDataStart(r, symbols, limit, use_cache, connect) ==
    LET args == [symbols |-> symbols, limit |-> limit, use_cache |-> use_cache]
        h == IF use_cache THEN get_database(Handles, connect) ELSE Handles
    IN
    /\ pc[r].at = "idle"
    /\ SetHandles(h)
    /\ IF h.raised
       THEN Unhandled("get_market_data", args, 0) /\ Finish(r)
       ELSE IF use_cache /\ market # <<>>
       THEN GetMarketData(symbols, limit, use_cache, NotCalled) /\ Finish(r)
       ELSE /\ Suspend(r, "awaiting_quotes", args)
            /\ UNCHANGED <<market, news, sentiment, trades, now, last>>

\* whether the handler reaches store_market_data after the provider's answer
MarketStores(outcome) ==
    LET r == fetch_from_coinmarketcap(outcome) IN
    /\ r.ok
    /\ "data" \in DOMAIN r.body => \A s \in DOMAIN r.body.data : QuoteComplete(r.body.data[s])

\* GET /market-data from its await on
MarketDataResume(r, outcome, connect) ==
    LET h == IF MarketStores(outcome) THEN get_database(Handles, connect) ELSE Handles IN
    /\ pc[r].at = "awaiting_quotes"
    /\ SetHandles(h)
    /\ Finish(r)
    /\ IF h.raised
       THEN Unhandled("get_market_data", pc[r].args, 1)
       ELSE /\ MarketFetch(pc[r].args, outcome)
            /\ UNCHANGED <<news, sentiment, trades, now>>

\* GET /crypto-news up to its await: the cache read, when use_cache is set
NewsStart(r, coins, limit, use_cache, connect) ==
    LET args == [coins |-> coins, limit |-> limit, use_cache |-> use_cache]
        h == IF use_cache THEN get_database(Handles, connect) ELSE Handles
    IN
    /\ pc[r].at = "idle"
    /\ SetHandles(h)
    /\ IF h.raised
       THEN Unhandled("get_crypto_news", args, 0) /\ Finish(r)
       ELSE IF use_cache /\ news # <<>>
       THEN GetCryptoNews(coins, limit, use_cache, NotCalled) /\ Finish(r)
       ELSE /\ Suspend(r, "awaiting_news", args)
            /\ UNCHANGED <<market, news, sentiment, trades, now, last>>

\* whether the try branch reaches store_news after the provider's answer
NewsTryStores(args, outcome) ==
    LET r == fetch_from_coinmarketcap(outcome) IN
    /\ r.ok
    /\ "data" \in DOMAIN r.body
    /\ ~(/\ Truthy(args.coins)
         /\ \E i \in DOMAIN r.body.data :
               FetchedVerdict(NewsItem(r.body.data[i]), args.coins) = "TypeError")

\* GET /crypto-news from its await on: store_news is called in the try branch
\* and, when that branch raised, again in the except branch
NewsResume(r, outcome, connect, reconnect) ==
    LET args == pc[r].args
        tried == NewsTryStores(args, outcome)
        first == get_database(Handles, connect)
        h == IF tried /\ first.raised THEN get_database(first, reconnect) ELSE first
        answer == IF tried /\ first.raised THEN NewsFallback(news, args, 1)
                  ELSE NewsFetch(news, args, outcome)
    IN
    /\ pc[r].at = "awaiting_news"
    /\ SetHandles(h)
    /\ Finish(r)
    /\ IF h.raised
       THEN Unhandled("get_crypto_news", args, 1)
       ELSE /\ Len(answer.news) <= MaxDocs
            /\ news' = answer.news
            /\ last' = Response("get_crypto_news", args, outcome, answer.status,
                                answer.body, answer.calls)
            /\ UNCHANGED <<market, sentiment, trades, now>>

\* GET /global-metrics: neither handle is used
GlobalMetricsRequest(r, outcome) ==
    /\ pc[r].at = "idle"
    /\ GetGlobalMetrics(outcome)
    /\ Finish(r)
    /\ UNCHANGED <<client, sentiment_model, tokenizer, made>>

\* POST /analyze-sentiment: no await; the model is fetched before the scoring
\* and the connection before the insert
AnalyzeSentimentRequest(r, text, coin_arg, load, scored, connect) ==
    LET m == get_sentiment_model(Handles, load)
        outcome == IF m.raised THEN [kind |-> "scorer_error"] ELSE scored
        h == IF outcome.kind = "ok" THEN get_database(m, connect) ELSE m
    IN
    /\ pc[r].at = "idle"
    /\ SetHandles(h)
    /\ Finish(r)
    /\ AnalyzeSentiment(text, coin_arg, outcome, ~h.raised)

\* GET /coin-sentiment/{coin}: no await
CoinSentimentRequest(r, coin_arg, days, connect) ==
    LET h == get_database(Handles, connect) IN
    /\ pc[r].at = "idle"
    /\ SetHandles(h)
    /\ Finish(r)
    /\ IF h.raised
       THEN Unhandled("get_coin_sentiment", [coin |-> coin_arg, days |-> days], 0)
       ELSE GetCoinSentiment(coin_arg, days)

(* ------------- the store gateway called on its own -------------------- *)
\* records a caller may hand to store_market_data: with and without a timestamp
MarketRecords ==
    {[data |-> <<>>]}
    \cup {[data |-> <<>>, timestamp |-> t] : t \in (0..MaxTime) \cup {NoTime}}

StoreMarketData(data) ==
    /\ Len(market) < MaxDocs
    /\ market' = store_market_data(data)
    /\ last' = Response("store_market_data", [data |-> data], NotCalled, 200,
                        market'[Len(market')], 0)
    /\ UNCHANGED <<news, sentiment, trades, now>>

GetLatestMarketData ==
    /\ \E found \in get_latest_market_data :
          last' = Response("get_latest_market_data", <<>>, NotCalled, 200, found, 0)
    /\ UNCHANGED <<market, news, sentiment, trades, now>>

\* items a caller may hand to store_news: with and without a stored_at
NewsLists ==
    {<<>>, <<SimulatedItem(0, <<"BTC">>)>>}
    \cup {<<Put(SimulatedItem(0, <<"BTC">>), "stored_at", t)>> : t \in 0..MaxTime}

StoreNews(news_items) ==
    /\ Len(news) + Len(news_items) <= MaxDocs
    /\ news' = store_news(news, news_items)
    /\ last' = Response("store_news", [news_items |-> news_items], NotCalled, 200,
                        SubSeq(news', Len(news) + 1, Len(news')), 0)
    /\ UNCHANGED <<market, sentiment, trades, now>>

GetRecentNews(limit) ==
    /\ \E found \in get_recent_news(news, limit) :
          last' = Response("get_recent_news", [limit |-> limit], NotCalled, 200,
                           found, 0)
    /\ UNCHANGED <<market, news, sentiment, trades, now>>

StoreSentiment(coin, text, score) ==
    /\ Len(sentiment) < MaxDocs
    /\ sentiment' = store_sentiment(sentiment, coin, text, score)
    /\ last' = Response("store_sentiment", [coin |-> coin, text |-> text, score |-> score],
                        NotCalled, 200, sentiment'[Len(sentiment')], 0)
    /\ UNCHANGED <<market, news, trades, now>>

GetSentimentHistory(coin, limit) ==
    /\ \E found \in get_sentiment_history(coin, limit) :
          last' = Response("get_sentiment_history", [coin |-> coin, limit |-> limit],
                           NotCalled, 200, found, 0)
    /\ UNCHANGED <<market, news, sentiment, trades, now>>

RecordTrade(user_id, coin, action, amount, price) ==
    /\ Len(trades) < MaxDocs
    /\ trades' = record_trade(user_id, coin, action, amount, price)
    /\ last' = Response("record_trade",
                        [user_id |-> user_id, coin |-> coin, action |-> action,
                         amount |-> amount, price |-> price],
                        NotCalled, 200, trades'[Len(trades')], 0)
    /\ UNCHANGED <<market, news, sentiment, now>>

\* limit_given is FALSE for a call that leaves limit to its default
GetTradeHistory(user_id, limit_given, limit) ==
    /\ ~limit_given => limit = DefaultTradeLimit
    /\ \E found \in get_trade_history(user_id, limit) :
          last' = Response("get_trade_history",
                           [user_id |-> user_id, limit_given |-> limit_given,
                            limit |-> limit],
                           NotCalled, 200, found, 0)
    /\ UNCHANGED <<market, news, sentiment, trades, now>>

\* time passes between requests
Tick ==
    /\ now < MaxTime
    /\ now' = now + 1
    /\ UNCHANGED <<market, news, sentiment, trades, last>>

(* --------------------------- specifications --------------------------- *)
Init ==
    /\ market = <<>>
    /\ news = <<>>
    /\ sentiment = <<>>
    /\ trades = <<>>
    /\ now = 0
    /\ last = [op |-> "none", args |-> <<>>, env |-> NotCalled, status |-> 0,
               body |-> <<>>, provider_calls |-> 0, at |-> 0,
               before |-> [market |-> <<>>, news |-> <<>>, sentiment |-> <<>>,
                           trades |-> <<>>]]
    /\ client = NoHandle
    /\ sentiment_model = NoHandle
    /\ tokenizer = NoHandle
    /\ made = [client |-> 0, sentiment_model |-> 0, tokenizer |-> 0, model_failed |-> 0,
               get_database |-> 0, get_sentiment_model |-> 0]
    /\ pc = [r \in Requests |-> [at |-> "idle"]]

\* the number of documents in the four collections
Stored == Len(market) + Len(news) + Len(sentiment) + Len(trades)

\* every endpoint and every function of the store gateway, one request each
Next ==
    \/ \E use_cache \in BOOLEAN,
          outcome \in {NotCalled, [kind |-> "connection_error"],
                       [kind |-> "ok",
                        body |-> [data |-> [BTC |-> CoinData("Bitcoin", "BTC", 100)]]]} :
          Stored < MaxStored /\ GetMarketData(" btc", 1, use_cache, outcome)
    \/ \E outcome \in MetricsOutcomes : GetGlobalMetrics(outcome)
    \/ \E use_cache \in BOOLEAN, outcome \in {NotCalled, [kind |-> "http_error"]} :
          Stored < MaxStored /\ GetCryptoNews("btc", 1, use_cache, outcome)
    \/ \E scored \in {[kind |-> "ok", scores |-> <<0, 0, Scale>>],
                       [kind |-> "scorer_error"]} :
          Stored < MaxStored /\ AnalyzeSentiment("Ether slips", "btc", scored, TRUE)
    \/ GetCoinSentiment("btc", 7)
    \/ \E failure \in {NoFailure, [kind |-> "scorer_error", at |-> 1]} :
          /\ Stored + 1 < MaxStored
          /\ AnalyzeNewsSentiment("BTC", 1,
                [fail |-> <<failure>>, provider |-> [kind |-> "http_error"],
                 scorer |-> [btc |-> <<0, 0, Scale>>, other |-> <<Scale, 0, 0>>]])
    \/ Stored < MaxStored /\ StoreMarketData([data |-> <<>>])
    \/ GetLatestMarketData
    \/ Stored < MaxStored /\ StoreNews(<<SimulatedItem(0, <<"ETH">>)>>)
    \/ GetRecentNews(1)
    \/ Stored < MaxStored /\ StoreSentiment("BTC", "Ether slips", -Scale)
    \/ GetSentimentHistory("BTC", 1)
    \/ Stored < MaxStored /\ RecordTrade(1, "BTC", "buy", 1, 100)
    \/ GetTradeHistory(1, TRUE, 1)

\* the whole service, at one instant of the clock
Spec == Init /\ [][Next /\ UNCHANGED shared]_vars

\* the default symbols and limit, and a request of its own
MarketQueries ==
    {[symbols |-> "BTC,ETH,XRP,LTC,ADA", limit |-> 10], [symbols |-> " btc", limit |-> 1]}

MarketNext ==
    \/ \E q \in MarketQueries, use_cache \in BOOLEAN, outcome \in QuoteOutcomes :
          GetMarketData(q.symbols, q.limit, use_cache, outcome)
    \/ \E outcome \in MetricsOutcomes : GetGlobalMetrics(outcome)
    \/ GetLatestMarketData
    \/ Tick

SpecMarket == Init /\ [][MarketNext /\ UNCHANGED shared]_vars

Limits == (-1)..MaxLimit

NewsNext ==
    \/ \E coins \in {None, "", "btc", " eth,BTC"}, limit \in Limits, use_cache \in BOOLEAN,
          outcome \in NewsOutcomes :
          GetCryptoNews(coins, limit, use_cache, outcome)
    \/ \E news_items \in NewsLists : StoreNews(news_items)
    \/ \E limit \in Limits : GetRecentNews(limit)

Texts == {"Bitcoin surges to new highs", "Ether slips"}
CoinArgs == {"btc", "ETH"}
Days == {-1, 0, 7}

\* distributions at both ends and next to a threshold
FewDistributions == {<<0, 0, Scale>>, <<Scale, 0, 0>>, <<0, Scale - 1, 1>>}

FewScorerOutcomes ==
    {[kind |-> "ok", scores |-> d] : d \in FewDistributions} \cup {[kind |-> "scorer_error"]}

SentimentNext ==
    \/ \E text \in Texts, coin \in CoinArgs, scored \in FewScorerOutcomes,
          store_ok \in BOOLEAN :
          AnalyzeSentiment(text, coin, scored, store_ok)
    \/ \E coin \in CoinArgs, days \in Days : GetCoinSentiment(coin, days)

\* the sentiment endpoints for a few distributions, at one instant of the clock
SpecSentiment == Init /\ [][SentimentNext /\ UNCHANGED shared]_vars

ScorerNext ==
    \/ /\ Len(sentiment) < MaxScored
       /\ \E coin \in CoinArgs, scored \in ScorerOutcomes :
             AnalyzeSentiment("Ether slips", coin, scored, TRUE)
    \/ \E coin \in CoinArgs, days \in Days : GetCoinSentiment(coin, days)

\* the scorer on every distribution, and the history of what it stored
SpecScorer == Init /\ [][ScorerNext /\ UNCHANGED shared]_vars

UserIds == {0, 1}

TradesNext ==
    \/ \E user_id \in UserIds : RecordTrade(user_id, "BTC", "buy", 1, 100)
    \/ \E user_id \in UserIds \cup {NoUser}, limit_given \in BOOLEAN,
          limit \in (1..MaxLimit) \cup {DefaultTradeLimit} :
          GetTradeHistory(user_id, limit_given, limit)
    \/ Tick

\* the trade functions of the store gateway
SpecTrades == Init /\ [][TradesNext /\ UNCHANGED shared]_vars

StampsNext ==
    \/ \E data \in MarketRecords : StoreMarketData(data)
    \/ \E news_items \in NewsLists : StoreNews(news_items)
    \/ Tick

\* the inserts of the store gateway that stamp what the caller hands them
SpecStamps == Init /\ [][StampsNext /\ UNCHANGED shared]_vars

RequestsNext ==
    \/ \E r \in Requests, use_cache \in BOOLEAN, connect \in ConnectOutcomes :
          MarketDataStart(r, " btc", 1, use_cache, connect)
    \/ \E r \in Requests, connect \in ConnectOutcomes,
          outcome \in {[kind |-> "connection_error"],
                       [kind |-> "ok",
                        body |-> [data |-> [BTC |-> CoinData("Bitcoin", "BTC", 100)]]]} :
          MarketDataResume(r, outcome, connect)
    \/ \E r \in Requests, use_cache \in BOOLEAN, connect \in ConnectOutcomes :
          NewsStart(r, "btc", 1, use_cache, connect)
    \/ \E r \in Requests, connect \in ConnectOutcomes, reconnect \in ConnectOutcomes,
          outcome \in {[kind |-> "http_error"],
                       [kind |-> "ok", body |-> [data |-> <<ProviderItems[1]>>]]} :
          NewsResume(r, outcome, connect, reconnect)
    \/ \E r \in Requests : GlobalMetricsRequest(r, [kind |-> "connection_error"])
    \/ \E r \in Requests, load \in LoadOutcomes, connect \in ConnectOutcomes,
          scored \in {[kind |-> "ok", scores |-> <<0, 0, Scale>>],
                      [kind |-> "scorer_error"]} :
          AnalyzeSentimentRequest(r, "Ether slips", "btc", load, scored, connect)
    \/ \E r \in Requests, connect \in ConnectOutcomes :
          CoinSentimentRequest(r, "btc", 7, connect)

\* concurrent requests that switch at the awaits of the handlers
SpecRequests == Init /\ [][RequestsNext]_vars

\* the outcomes of the external calls of one news-sentiment request: a
\* failure for each position of the coin list, the provider's answer to a
\* news call that misses the cache, and the scorer
NewsSentimentEnvs ==
    {[fail |-> f, provider |-> p, scorer |-> sc] :
        f \in [1..2 -> CoinFailures],
        p \in {[kind |-> "http_error"]},
        sc \in {[btc |-> <<0, 0, Scale>>, other |-> <<Scale - 1, 1, 0>>]}}

\* a body of cryptocurrency/news with an article about both coins and a later
\* item without a title
SharedItems ==
    <<[title |-> "BTC and ETH rally", url |-> "https://cmc/3", description |-> "Markets up",
       published_at |-> IsoFormat(1), source |-> "cmc",
       coins |-> <<[symbol |-> "BTC"], [symbol |-> "ETH"]>>],
      ProviderItems[2]>>

NewsSentimentNext ==
    \/ \E coins \in {"BTC,ETH"}, limit \in 1..MaxLimit,
          env \in NewsSentimentEnvs :
          Len(sentiment) < MaxScored /\ AnalyzeNewsSentiment(coins, limit, env)
    \/ \E limit \in 1..MaxLimit :
          GetCryptoNews(None, limit, FALSE, [kind |-> "ok", body |-> [data |-> SharedItems]])

\* news-driven sentiment over a cache that is empty or filled by the provider
SpecNewsSentiment == Init /\ [][NewsSentimentNext /\ UNCHANGED shared]_vars

\* the news operations, at one instant of the clock
SpecNews == Init /\ [][NewsNext /\ UNCHANGED shared]_vars

(* ------------------------------ claims -------------------------------- *)
IsFailure(outcome) == outcome \in ProviderFailures

Unwritten == last.before = Store

\* C1: a GET /market-data request with use_cache=true that finds the snapshot
\* collection non-empty answers 200 with a stored snapshot of the greatest
\* timestamp, all fields but _id as stored, whatever symbols and limit it
\* carries and however old the snapshot is; it makes no provider call and
\* leaves every collection as it was.
C1_CachedSnapshotReturned ==
    (last.op = "get_market_data" /\ last.args.use_cache /\ last.before.market # <<>>)
    => /\ last.status = 200
       /\ \E d \in Range(last.before.market) :
             /\ \A e \in Range(last.before.market) : e.timestamp <= d.timestamp
             /\ last.body = Remove(d, "_id")
       /\ last.provider_calls = 0
       /\ Unwritten

\* C1 witness: a cache hit on two snapshots of different age, both older than
\* the request, for a non-default symbols parameter
C1_Witness ==
    /\ last.op = "get_market_data" /\ last.args.use_cache
    /\ last.args.symbols = " btc"
    /\ Len(last.before.market) = 2
    /\ last.before.market[1].timestamp < last.before.market[2].timestamp
    /\ last.before.market[2].timestamp < last.at
    /\ last.body = Remove(last.before.market[2], "_id")

\* C8 (as claimed): a record handed to store_market_data with a timestamp of
\* its own, or an item handed to store_news with a stored_at of its own, is
\* persisted with the caller's value; one without gets the current time.
C8_CallerTimestampKept ==
    /\ last.op = "store_market_data"
       => last.body.timestamp =
             IF "timestamp" \in DOMAIN last.args.data
                /\ last.args.data.timestamp # NoTime
             THEN last.args.data.timestamp
             ELSE last.at
    /\ last.op = "store_news"
       => \A i \in DOMAIN last.body :
             last.body[i].stored_at =
                IF "stored_at" \in DOMAIN last.args.news_items[i]
                THEN last.args.news_items[i].stored_at
                ELSE last.at

\* C8 (amended): store_market_data and store_news stamp every record they
\* persist with the time of the insert, whether or not the caller supplied a
\* timestamp / stored_at: a supplied value is replaced; the other fields are
\* persisted as handed over.
C8_StampedAtInsert ==
    /\ last.op = "store_market_data"
       => /\ last.body.timestamp = last.at
          /\ Remove(Remove(last.body, "_id"), "timestamp")
                = Remove(last.args.data, "timestamp")
          /\ market = Append(last.before.market, last.body)
    /\ last.op = "store_news"
       => /\ Len(last.body) = Len(last.args.news_items)
          /\ \A i \in DOMAIN last.body :
                /\ last.body[i].stored_at = last.at
                /\ Remove(Remove(last.body[i], "_id"), "stored_at")
                      = Remove(last.args.news_items[i], "stored_at")
          /\ news = last.before.news \o last.body

\* C8 witness: a snapshot handed over with a timestamp that is not the time
\* of the insert
C8_Witness ==
    /\ last.op = "store_market_data"
    /\ "timestamp" \in DOMAIN last.args.data
    /\ last.args.data.timestamp # NoTime
    /\ last.args.data.timestamp # last.at
    /\ last.body.timestamp = last.at

\* C9: when GET /market-data (after a cache miss or with use_cache=false) or
\* GET /global-metrics calls the provider and the call fails, the request ends
\* with status 500 after exactly one provider call and every collection is as
\* it was before the request.
C9_ProviderFailureSurfaced ==
    (/\ last.op \in {"get_market_data", "get_global_metrics"}
     /\ IsFailure(last.env))
    => /\ last.status = 500
       /\ last.provider_calls = 1
       /\ Unwritten

\* C9 witness: a failed fetch after use_cache=true missed an empty cache, and
\* one with use_cache=false over a stored snapshot
C9_Witness ==
    /\ last.op = "get_market_data"
    /\ IsFailure(last.env)
    /\ last.status = 500
    /\ \/ last.args.use_cache /\ market = <<>>
       \/ ~last.args.use_cache /\ market # <<>>

\* the coin list the claims expect for each coins parameter: the requested
\* symbols trimmed and upper-cased, the default list when none is given
ExpectedCoins(coins) ==
    CASE coins = "btc" -> <<"BTC">>
      [] coins = " eth,BTC" -> <<"ETH", "BTC">>
      [] OTHER -> <<"BTC", "ETH", "XRP", "LTC", "ADA">>

\* the articles are simulated ones for the coin list, round-robin from its
\* first coin, with strictly descending published timestamps
RoundRobinDescending(articles, coin_list) ==
    /\ \A i \in DOMAIN articles :
          LET coin == coin_list[((i - 1) % Len(coin_list)) + 1] IN
          /\ articles[i].related_coins = <<[symbol |-> coin]>>
          /\ articles[i].title = coin \o " Shows Promising Movement in Today's Trading"
          /\ articles[i].source = "CryptoNewsSimulator"
    /\ \A i, j \in DOMAIN articles :
          i < j => PubLess(articles[j].published_at, articles[i].published_at)

\* C2 (as claimed): whenever GET /crypto-news calls the provider and the call
\* fails, the response holds exactly `limit` simulated articles, round-robin
\* over the requested or default coins, strictly descending in time.
C2_ExactlyLimitArticles ==
    (last.op = "get_crypto_news" /\ IsFailure(last.env))
    => /\ last.status = 200
       /\ Len(last.body.news) = last.args.limit
       /\ RoundRobinDescending(last.body.news, ExpectedCoins(last.args.coins))

\* C2 (amended): whenever GET /crypto-news calls the provider and the call
\* fails, the response holds exactly max(limit, 0) simulated articles,
\* round-robin over the requested or default coins, strictly descending in
\* time.
C2_LimitOrNoArticles ==
    (last.op = "get_crypto_news" /\ IsFailure(last.env))
    => /\ last.status = 200
       /\ Len(last.body.news) = Max(last.args.limit, 0)
       /\ RoundRobinDescending(last.body.news, ExpectedCoins(last.args.coins))

\* C2 witness: a failed provider call answered with two articles, the first
\* for ETH and the second for BTC, for the parameter " eth,BTC"
C2_Witness ==
    /\ last.op = "get_crypto_news" /\ IsFailure(last.env)
    /\ last.args.coins = " eth,BTC" /\ last.args.limit = 2
    /\ Len(last.body.news) = 2
    /\ last.body.news[1].related_coins = <<[symbol |-> "ETH"]>>
    /\ last.body.news[2].related_coins = <<[symbol |-> "BTC"]>>

\* the first n of a list, none when n is not positive
FirstN(l, n) == SubSeq(l, 1, Min(Max(n, 0), Len(l)))

\* an article mentions one of the coins in its title or its description
Mentions(article, coin_list) ==
    \E k \in DOMAIN coin_list :
        \/ article.title # None /\ Contains(coin_list[k], article.title)
        \/ article.description # None /\ Contains(coin_list[k], article.description)

\* C10: a GET /crypto-news request with use_cache=true that finds the news
\* collection non-empty makes no provider call and leaves every collection as
\* it was; it answers 200 with the `limit` most recent stored articles, _id
\* removed, and when coins are given only those of them that mention a
\* requested coin, so with at most `limit` articles.
C10_CachedNewsReturned ==
    (last.op = "get_crypto_news" /\ last.args.use_cache /\ last.before.news # <<>>)
    => /\ last.provider_calls = 0
       /\ Unwritten
       /\ last.status = 200
       /\ Len(last.body.news) <= last.args.limit
       /\ \E s \in SortedDesc(last.before.news, "published_at") :
             LET recent == FirstN(s, last.args.limit)
                 stripped == [i \in DOMAIN recent |-> Remove(recent[i], "_id")]
                 wanted == {i \in DOMAIN stripped :
                               Mentions(stripped[i], ExpectedCoins(last.args.coins))}
             IN last.body.news =
                   IF last.args.coins \in {None, ""} THEN stripped
                   ELSE Filter(stripped, wanted)

\* C3: get_trade_history(user_id, limit) answers only records of the given
\* user whenever a user id is supplied, in descending order of timestamp, and
\* at most `limit` of them (20 when no limit is given).
C3_TradeHistoryOfUser ==
    last.op = "get_trade_history"
    => /\ last.args.user_id # NoUser
          => \A i \in DOMAIN last.body : last.body[i].user_id = last.args.user_id
       /\ \A i, j \in DOMAIN last.body :
             i < j => last.body[i].timestamp >= last.body[j].timestamp
       /\ Len(last.body) <= (IF last.args.limit_given THEN last.args.limit ELSE 20)

\* the label the thresholds give a score of s/Scale
ExpectedLabel(s) ==
    IF 5 * s > Scale THEN "positive"
    ELSE IF 5 * s < -Scale THEN "negative"
    ELSE "neutral"

\* C4: a score the scorer produces is the positive minus the negative
\* probability and lies in [-1, 1], its label is positive iff the score is
\* above 0.2, negative iff below -0.2 and neutral otherwise; every record in
\* the sentiment_history of GET /coin-sentiment is a stored record, _id
\* removed, with the label of its stored score.
C4_ScoreBoundedAndLabelled ==
    /\ (last.op = "analyze_sentiment" /\ last.status = 200)
       => /\ last.body.sentiment_score = last.env.scores[3] - last.env.scores[1]
          /\ last.body.sentiment_score >= -Scale
          /\ last.body.sentiment_score <= Scale
          /\ last.body.sentiment_label = ExpectedLabel(last.body.sentiment_score)
    /\ last.op = "get_coin_sentiment"
       => \A i \in DOMAIN last.body.sentiment_history :
             LET item == last.body.sentiment_history[i] IN
             /\ item.sentiment_label = ExpectedLabel(item.sentiment_score)
             /\ \E d \in Range(sentiment) :
                   Remove(d, "_id") = Remove(item, "sentiment_label")

\* C4 witness: a history whose record has a score of exactly 0.2
C4_Witness ==
    /\ last.op = "get_coin_sentiment"
    /\ Len(last.body.sentiment_history) > 0
    /\ 5 * last.body.sentiment_history[1].sentiment_score = Scale
    /\ last.body.sentiment_history[1].sentiment_label = "neutral"

\* the coin path parameters of the requests, upper-cased
ExpectedUpper(coin) == IF coin = "btc" THEN "BTC" ELSE coin

\* C5: a successful POST /analyze-sentiment appends exactly one record, of the
\* upper-cased coin, the request text and the score in the response, whose
\* label is the threshold label of that score; a request whose scoring fails
\* ends with status 500, and a request that ends so appends nothing.
C5_OneRecordPerSuccess ==
    last.op = "analyze_sentiment"
    => /\ last.env.kind # "ok" => last.status = 500
       /\ last.status \in {200, 500}
       /\ last.status = 500 => Unwritten
       /\ last.status = 200
          => /\ Len(sentiment) = Len(last.before.sentiment) + 1
             /\ SubSeq(sentiment, 1, Len(last.before.sentiment)) = last.before.sentiment
             /\ [last.before EXCEPT !.sentiment = sentiment] = Store
             /\ sentiment[Len(sentiment)].coin = ExpectedUpper(last.args.coin)
             /\ sentiment[Len(sentiment)].text = last.args.text
             /\ sentiment[Len(sentiment)].sentiment_score = last.body.sentiment_score
             /\ last.body.coin = ExpectedUpper(last.args.coin)
             /\ last.body.text = last.args.text
             /\ last.body.sentiment_label = ExpectedLabel(last.body.sentiment_score)

\* C5 witness: a successful request for "btc" appended to a stored record
C5_Witness ==
    /\ last.op = "analyze_sentiment" /\ last.status = 200
    /\ last.args.coin = "btc"
    /\ last.before.sentiment # <<>>
    /\ sentiment[Len(sentiment)].coin = "BTC"
    /\ sentiment[Len(sentiment)].sentiment_score # 0


NewsSentimentRequest == last.op = "analyze_news_sentiment"

\* the last turn of the loop that handled the coin
LastTurn(coin_list, coin) ==
    CHOOSE k \in DOMAIN coin_list :
        /\ coin_list[k] = coin
        /\ \A j \in DOMAIN coin_list : coin_list[j] = coin => j <= k

ErrorShaped(entry) == DOMAIN entry = {"error", "articles"} /\ entry.articles = <<>>

ScoredShaped(entry) ==
    DOMAIN entry = {"articles", "average_sentiment", "overall_sentiment"}

\* the failure is contained: a 200 with one entry per requested coin, an error
\* entry for a coin whose turn raised and a scored entry for the others
FailureContained ==
    LET coin_list == CoinList(last.args.coins)
    IN /\ last.status = 200
       /\ DOMAIN last.body = Range(coin_list)
       /\ \A coin \in Range(coin_list) :
             IF last.env.raised[LastTurn(coin_list, coin)]
             THEN ErrorShaped(last.body[coin])
             ELSE ScoredShaped(last.body[coin])

\* the same request on the same collections with the failure of turn k taken away
WithoutFailure(k) ==
    analyze_news_sentiment(last.before.news, last.before.sentiment,
                           last.args.coins, last.args.limit,
                           [last.env EXCEPT !.fail[k] = NoFailure])

\* the entries of the coins other than the one of turn k are those of some run
\* without the failure of turn k
OthersUntouched(k) ==
    LET coin_list == CoinList(last.args.coins)
    IN \E run \in WithoutFailure(k) :
          \A coin \in Range(coin_list) \ {coin_list[k]} :
             run.results[coin] = last.body[coin]

\* C6 as stated: a failure while one coin is processed is contained, and every
\* other coin's entry is what it would have been without that failure
C6_OtherCoinsAsWithoutFailure ==
    NewsSentimentRequest =>
        /\ FailureContained
        /\ \A k \in DOMAIN CoinList(last.args.coins) :
              (last.env.raised[k] /\ last.env.fail[k] # NoFailure) => OthersUntouched(k)

\* C6: a failure while one coin is processed is contained, and when the
\* failure happened after the coin's news request was served (while scoring or
\* storing an article) every other coin's entry is what it would have been
\* without that failure
C6_FailureContained ==
    NewsSentimentRequest =>
        /\ FailureContained
        /\ \A k \in DOMAIN CoinList(last.args.coins) :
              (last.env.raised[k] /\ last.env.fail[k].kind \in {"scorer_error", "store_error"})
                 => OthersUntouched(k)

\* a request in which the first coin failed while scoring and the second coin
\* has scored articles
C6_Witness ==
    /\ NewsSentimentRequest
    /\ last.env.raised = <<TRUE, FALSE>>
    /\ last.env.fail[1].kind = "scorer_error"
    /\ last.body["ETH"].articles # <<>>


\* the operations that only read the store, cache hits included
ReadOnly(request) ==
    \/ request.op \in {"get_latest_market_data", "get_recent_news", "get_sentiment_history",
                       "get_trade_history", "get_coin_sentiment", "get_global_metrics"}
    \/ /\ request.op = "get_market_data"
       /\ request.args.use_cache
       /\ request.before.market # <<>>
    \/ /\ request.op = "get_crypto_news"
       /\ request.args.use_cache
       /\ request.before.news # <<>>

\* C7: every step keeps each collection's documents, in place and unchanged,
\* as a prefix of the collection after the step, and a step that is a read
\* leaves the four collections as they were
C7_AppendOnly ==
    [][/\ IsPrefix(market, market')
       /\ IsPrefix(news, news')
       /\ IsPrefix(sentiment, sentiment')
       /\ IsPrefix(trades, trades')
       /\ ReadOnly(last') => Store' = Store]_vars

\* a history read that backfilled a label, over a store in which every
\* collection has a document
C7_Witness ==
    /\ last.op = "get_coin_sentiment"
    /\ last.body.sentiment_history # <<>>
    /\ "sentiment_label" \notin DOMAIN sentiment[1]
    /\ \A name \in DOMAIN Store : Store[name] # <<>>


\* a handle that is set stays as it is
Kept(handle, next) == handle # NoHandle => next = handle

\* C11 as stated: whatever the interleaving, the client, the tokenizer and the
\* model are each constructed at most once, and a handle once set is never
\* reset or replaced
C11_EachInitializedOnce ==
    /\ [](made.client <= 1 /\ made.tokenizer <= 1 /\ made.sentiment_model <= 1)
    /\ [][/\ Kept(client, client')
          /\ Kept(tokenizer, tokenizer')
          /\ Kept(sentiment_model, sentiment_model')]_vars

\* C11: whatever the interleaving, the client and the model are each
\* constructed at most once and, once set, never reset or replaced; the
\* tokenizer is never reset, is constructed once more for every model load
\* that failed after it, and is never replaced once the model is set
C11_PairInitializedOnce ==
    /\ [](/\ made.client <= 1
          /\ made.sentiment_model <= 1
          /\ made.tokenizer <= made.model_failed + 1
          /\ sentiment_model # NoHandle => tokenizer # NoHandle)
    /\ [][/\ Kept(client, client')
          /\ Kept(sentiment_model, sentiment_model')
          /\ tokenizer # NoHandle => tokenizer' # NoHandle
          /\ sentiment_model # NoHandle => tokenizer' = tokenizer]_vars

\* the tokenizer was loaded again after a failed model load, the pair is now
\* set, and get_database() was called again after the client was constructed
C11_Witness ==
    /\ made.tokenizer = 2 /\ made.model_failed = 1
    /\ sentiment_model # NoHandle /\ tokenizer # NoHandle
    /\ made.client = 1 /\ made.get_database >= 2


\* the positions of the sentiment records of a coin that the request persisted
PersistedFor(coin) ==
    {i \in (Len(last.before.sentiment) + 1)..Len(sentiment) : sentiment[i].coin = coin}

\* the record is the one persisted for the article entry: its score, and the
\* text scored for an article of that title and url, which is the title and
\* the first hundred characters of the description
RecordOf(record, article_entry) ==
    /\ record.sentiment_score = article_entry.sentiment_score
    /\ \E article \in Range(news) :
          /\ article.title = article_entry.title
          /\ article.url = article_entry.url
          /\ \E cut \in 0..Len(article.description) :
                /\ cut = Len(article.description) \/ cut = 100
                /\ cut <= 100
                /\ record.text = article.title \o ". " \o SubSeq(article.description, 1, cut)

\* C12: after GET /analyze-news-sentiment the records that were there before
\* are still there, and for every coin each article entry of the response has
\* a record of its own among those the request persisted for that coin, with
\* the entry's score and the scored text; so the request persisted for the
\* coin at least as many records as the response lists entries
C12_PersistedBeforeReported ==
    NewsSentimentRequest =>
        /\ IsPrefix(last.before.sentiment, sentiment)
        /\ \A coin \in DOMAIN last.body :
              LET entries == last.body[coin].articles IN
              /\ Cardinality(PersistedFor(coin)) >= Len(entries)
              /\ \E record_of \in [DOMAIN entries -> PersistedFor(coin)] :
                    /\ \A i, j \in DOMAIN entries : i < j => record_of[i] < record_of[j]
                    /\ \A i \in DOMAIN entries :
                          RecordOf(sentiment[record_of[i]], entries[i])

\* a request whose first coin failed at its second article: the record of the
\* first article is in the store and the coin's entry lists no articles
C12_Witness ==
    /\ NewsSentimentRequest
    /\ last.env.fail[1].kind = "store_error"
    /\ ErrorShaped(last.body["BTC"])
    /\ Cardinality(PersistedFor("BTC")) = 1

====
